---- MODULE Spec2Model ----
(***************************************************************************)
(* OPAL PNOR flash MTD abstraction (drivers/mtd/devices/powernv_flash.c). *)
(*                                                                         *)
(* powernv_flash_probe reads the device node and registers the device;    *)
(* once it is registered, every caller p of the facade makes one          *)
(* invocation of read, write or erase after the other.  An invocation     *)
(* runs powernv_flash_async_op: it takes a token                          *)
(* from the OPAL async token pool, dispatches the flash call to firmware, *)
(* blocks until the completion message tagged with its token arrives,     *)
(* releases the token and decodes the status.  The steps of one           *)
(* invocation are split where other invocations or the firmware can       *)
(* interleave: at the token pool, at the dispatch, at the completion wait *)
(* and, for erase, around the state update and the callback.              *)
(*                                                                         *)
(* The token pool and the completion channel (opal-async.c) and the       *)
(* firmware are not part of the driver file; they are modelled from the   *)
(* design document: a bounded pool of unique tokens, and one completion   *)
(* message per accepted request, keyed by token.                           *)
(***************************************************************************)
EXTENDS Integers, FiniteSets, Sequences, TLC

\* ---- bounds of the model ------------------------------------------------
NumTokens == 2
MaxLen == 2

\* ---- program constants --------------------------------------------------
ENOMEM == 12
EIO == 5
EINVAL == 22
EBUSY == 16
ERESTARTSYS == 512
OPAL_SUCCESS == 0
OPAL_PARAMETER == -1
OPAL_HARDWARE == -6
OPAL_ASYNC_COMPLETION == -15
MTD_FAIL_ADDR_UNKNOWN == -1

\* the call contexts that use the device concurrently
Procs == {1, 2}
Tokens == 0..(NumTokens - 1)
Lens == 1..MaxLen
\* each caller works on its own region of the flash
Offsets(p) == {p, p + MaxLen}

flash_op == {"FLASH_OP_READ", "FLASH_OP_WRITE", "FLASH_OP_ERASE"}
NoOp == "none"
NoToken == -1
NoProc == 0
\* a value that may be absent: <<>> when absent, <<v>> when present
NoMsg == <<>>
Unset == <<>>
Some(v) == <<v>>
Val(s) == s[1]

\* what the firmware may answer to a dispatch, and the status it may put in
\* a completion message (msg.params[1]); all OPAL return codes fit an int,
\* so the conversion to int rc on line 102 keeps their value
DispatchRcs == {OPAL_ASYNC_COMPLETION, OPAL_SUCCESS, OPAL_PARAMETER}
Statuses == {OPAL_SUCCESS, OPAL_HARDWARE}
\* what a failed token acquisition returns: interrupted by a signal, or no
\* token to be had
TokenErrors == {-ERESTARTSYS, -EBUSY}

VARIABLES
    pc,           \* position of each invocation
    op,           \* enum flash_op of the invocation
    offset,       \* offset / from / to / erase->addr
    len,          \* len / erase->len
    token,        \* local: int token
    rc,           \* local: int rc of powernv_flash_async_op
    msg,          \* local: status carried by struct opal_msg msg, once filled
    retlen,       \* *retlen of the caller
    ret,          \* value powernv_flash_async_op returned
    result,       \* value the facade entry point returned
    erase_state,  \* erase->state
    fail_addr,    \* erase->fail_addr
    callbacks,    \* number of mtd_erase_callback calls for the request
    token_map,    \* tokens handed out and not released
    inflight,     \* tokens of requests the firmware accepted and has not answered
    responses,    \* completion messages delivered and not yet consumed, by token
    dispatch_rc,  \* what the firmware answered to the dispatch of p
    requester,    \* by token: the invocation whose accepted request carries it
    acquired,     \* per invocation: tokens taken from the pool
    released,     \* per invocation: tokens given back to the pool
    dispatched,   \* per invocation: firmware dispatches made
    waited,       \* per invocation: calls of opal_async_wait_response
    earlier,      \* per invocation: those dispatched before it and waiting ever since
    dt,           \* the device node: which properties it has, and the length of reg
    probe         \* powernv_flash_probe: where it is, what it returned and did

locals == <<op, offset, len, token, rc, msg>>
outs == <<retlen, ret, result>>
erase == <<erase_state, fail_addr, callbacks>>
firmware == <<inflight, responses, dispatch_rc, requester>>
counts == <<acquired, released, dispatched, waited>>
platform == <<dt, probe>>
vars == <<pc, locals, outs, erase, token_map, firmware, counts, earlier, platform>>

\* sizeof(__be32), and the length of a reg property of two cells
CellSize == 4
\* the device nodes a platform may present: with or without ibm,opal-id and
\* ibm,flash-block-size, and reg absent or of one or two cells
DeviceNodes ==
    [id : BOOLEAN, block_size : BOOLEAN,
     reg : {Unset, Some(CellSize), Some(CellSize + CellSize)}]
\* what the uninitialised int count of line 180 may hold when nothing wrote it
UninitCounts == {0, CellSize + CellSize}
GeometryFields == {"id", "size", "erasesize"}

Init ==
    /\ dt \in DeviceNodes
    /\ probe = [pc |-> "start", ret |-> Unset, called |-> FALSE,
                registered |-> FALSE, fields |-> {}]
    /\ pc = [p \in Procs |-> "idle"]
    /\ op = [p \in Procs |-> NoOp]
    /\ offset = [p \in Procs |-> 0]
    /\ len = [p \in Procs |-> 0]
    /\ token = [p \in Procs |-> NoToken]
    /\ rc = [p \in Procs |-> 0]
    /\ msg = [p \in Procs |-> NoMsg]
    /\ retlen = [p \in Procs |-> Unset]
    /\ ret = [p \in Procs |-> Unset]
    /\ result = [p \in Procs |-> Unset]
    /\ erase_state = [p \in Procs |-> "MTD_ERASE_PENDING"]
    /\ fail_addr = [p \in Procs |-> MTD_FAIL_ADDR_UNKNOWN]
    /\ callbacks = [p \in Procs |-> 0]
    /\ token_map = {}
    /\ inflight = {}
    /\ responses = [t \in Tokens |-> NoMsg]
    /\ dispatch_rc = [p \in Procs |-> Unset]
    /\ requester = [t \in Tokens |-> NoProc]
    /\ acquired = [p \in Procs |-> 0]
    /\ released = [p \in Procs |-> 0]
    /\ dispatched = [p \in Procs |-> 0]
    /\ waited = [p \in Procs |-> 0]
    /\ earlier = [p \in Procs |-> {}]

\* ---- probe -----------------------------------------------------------------

\* lines 182-194 of powernv_flash_set_driver_info: the value of count / sizeof
\* after of_get_property(.., "reg", &count), which writes count only when
\* the property is there
RegCells(garbage) ==
    (IF dt.reg = Unset THEN garbage ELSE Val(dt.reg)) \div CellSize

\* lines 176-210: 1 when ibm,flash-block-size is absent or reg is not two
\* cells; otherwise the fields are filled from the properties, and reading
\* the size through the null reg pointer of an absent reg is a fault
powernv_flash_set_driver_info(garbage) ==
    IF ~dt.block_size THEN [oops |-> FALSE, rc |-> 1]
    ELSE IF RegCells(garbage) # 2 THEN [oops |-> FALSE, rc |-> 1]
    ELSE [oops |-> dt.reg = Unset, rc |-> 0]

\* lines 218-256; alloc_ok: devm_kzalloc succeeded, register_rc: what
\* mtd_device_parse_register returns
powernv_flash_probe(alloc_ok, garbage, register_rc) ==
    /\ probe.pc = "start"
    /\ LET info == powernv_flash_set_driver_info(garbage) IN
       probe' =
         IF ~alloc_ok
         THEN [probe EXCEPT !.pc = "returned", !.ret = Some(-ENOMEM)]
         ELSE IF ~dt.id
         THEN [probe EXCEPT !.pc = "returned", !.ret = Some(-EIO)]
         ELSE IF info.oops
         THEN [probe EXCEPT !.pc = "oops", !.fields = {"id"}]
         ELSE IF info.rc # 0
         THEN [probe EXCEPT !.pc = "returned", !.ret = Some(-EIO),
                            !.fields = {"id"}]
         ELSE [probe EXCEPT !.pc = "returned", !.ret = Some(register_rc),
                            !.fields = GeometryFields, !.called = TRUE,
                            !.registered = (register_rc = 0)]
    /\ UNCHANGED <<pc, locals, outs, erase, token_map, firmware, counts, earlier, dt>>

\* ---- facade entry points -------------------------------------------------

\* the call of powernv_flash_async_op, up to the token acquisition
async_op_enter(p, o, off, l) ==
    /\ op' = [op EXCEPT ![p] = o]
    /\ offset' = [offset EXCEPT ![p] = off]
    /\ len' = [len EXCEPT ![p] = l]
    /\ pc' = [pc EXCEPT ![p] = "get_token"]

powernv_flash_read(p, from, l) ==
    /\ probe.registered
    /\ UNCHANGED platform
    /\ UNCHANGED earlier
    /\ pc[p] = "idle"
    /\ async_op_enter(p, "FLASH_OP_READ", from, l)
    /\ UNCHANGED <<token, rc, msg, outs, erase, token_map, firmware, counts>>

powernv_flash_write(p, to, l) ==
    /\ probe.registered
    /\ UNCHANGED platform
    /\ UNCHANGED earlier
    /\ pc[p] = "idle"
    /\ async_op_enter(p, "FLASH_OP_WRITE", to, l)
    /\ UNCHANGED <<token, rc, msg, outs, erase, token_map, firmware, counts>>

\* bug variant: the request is not marked as being erased
powernv_flash_erase_no_erasing(p, addr, l) ==
    /\ probe.registered
    /\ UNCHANGED platform
    /\ UNCHANGED earlier
    /\ pc[p] = "idle"
    /\ async_op_enter(p, "FLASH_OP_ERASE", addr, l)
    /\ UNCHANGED <<token, rc, msg, outs, erase, token_map, firmware, counts>>

powernv_flash_erase(p, addr, l) ==
    /\ probe.registered
    /\ UNCHANGED platform
    /\ UNCHANGED earlier
    /\ pc[p] = "idle"
    /\ erase_state' = [erase_state EXCEPT ![p] = "MTD_ERASING"]
    /\ async_op_enter(p, "FLASH_OP_ERASE", addr, l)
    /\ UNCHANGED <<token, rc, msg, outs, fail_addr, callbacks, token_map,
                   firmware, counts>>

\* ---- the return of powernv_flash_async_op to its caller ------------------

\* read and write hand the value on as their own; erase keeps it in its rc
async_op_return(p, r, rl) ==
    /\ ret' = [ret EXCEPT ![p] = Some(r)]
    /\ retlen' = [retlen EXCEPT ![p] = rl]
    /\ IF op[p] = "FLASH_OP_ERASE"
       THEN /\ pc' = [pc EXCEPT ![p] = "erase_rc"]
            /\ UNCHANGED result
       ELSE /\ pc' = [pc EXCEPT ![p] = "done"]
            /\ result' = [result EXCEPT ![p] = Some(r)]

\* ---- powernv_flash_async_op ----------------------------------------------

\* line 69, a token is available: the pool hands out one that is not in use
get_token_ok(p) ==
    /\ UNCHANGED platform
    /\ UNCHANGED earlier
    /\ pc[p] = "get_token"
    /\ \E t \in Tokens \ token_map :
          /\ token' = [token EXCEPT ![p] = t]
          /\ token_map' = token_map \cup {t}
    /\ acquired' = [acquired EXCEPT ![p] = @ + 1]
    /\ pc' = [pc EXCEPT ![p] = "dispatch"]
    /\ UNCHANGED <<op, offset, len, rc, msg, outs, erase, firmware,
                   released, dispatched, waited>>

\* bug variant of line 72: the failure is reported as an I/O error
get_token_fail_eio(p) ==
    /\ UNCHANGED platform
    /\ UNCHANGED earlier
    /\ pc[p] = "get_token"
    /\ \E t \in TokenErrors :
          token' = [token EXCEPT ![p] = t]
    /\ async_op_return(p, -EIO, retlen[p])
    /\ UNCHANGED <<op, offset, len, rc, msg, erase, token_map, firmware, counts>>

\* lines 69-73, the acquisition fails (token < 0): return -ENOMEM
get_token_fail(p) ==
    /\ UNCHANGED platform
    /\ UNCHANGED earlier
    /\ pc[p] = "get_token"
    /\ \E t \in TokenErrors :
          token' = [token EXCEPT ![p] = t]
    /\ async_op_return(p, -ENOMEM, retlen[p])
    /\ UNCHANGED <<op, offset, len, rc, msg, erase, token_map, firmware, counts>>

opal_async_get_token_interruptible(p) ==
    \/ get_token_ok(p)
    \/ get_token_fail(p)

\* bug variant of the test on line 89: any non-negative answer passes too
DispatchAcceptedNonNegative(r) == r = OPAL_ASYNC_COMPLETION \/ r >= 0

\* line 89: the firmware accepted the request for asynchronous completion
DispatchAccepted(r) == r = OPAL_ASYNC_COMPLETION

\* the invocations that are in the completion wait when p is dispatched
WaitingBefore(p) ==
    [earlier EXCEPT ![p] = {q \in Procs \ {p} : pc[q] = "wait"}]

\* bug variant: the device is claimed for the whole operation, and no request
\* is dispatched while another invocation is in its wait
opal_flash_dispatch_serialized(p, r) ==
    /\ UNCHANGED platform
    /\ earlier' = IF r = OPAL_ASYNC_COMPLETION THEN WaitingBefore(p) ELSE earlier
    /\ pc[p] = "dispatch"
    /\ \A q \in Procs \ {p} : pc[q] \notin {"wait", "release"}
    /\ op[p] \in flash_op
    /\ rc' = [rc EXCEPT ![p] = r]
    /\ dispatch_rc' = [dispatch_rc EXCEPT ![p] = Some(r)]
    /\ dispatched' = [dispatched EXCEPT ![p] = @ + 1]
    /\ inflight' = IF r = OPAL_ASYNC_COMPLETION
                   THEN inflight \cup {token[p]} ELSE inflight
    /\ requester' = IF r = OPAL_ASYNC_COMPLETION
                    THEN [requester EXCEPT ![token[p]] = p] ELSE requester
    /\ IF DispatchAccepted(r)
       THEN /\ pc' = [pc EXCEPT ![p] = "wait"]
            /\ UNCHANGED outs
       ELSE async_op_return(p, -EIO, retlen[p])
    /\ UNCHANGED <<op, offset, len, token, msg, erase, token_map, responses,
                   acquired, released, waited>>

\* bug variant: the token is given back once the request is accepted, before
\* the wait for its completion
opal_flash_dispatch_release_early(p, r) ==
    /\ UNCHANGED platform
    /\ earlier' = IF r = OPAL_ASYNC_COMPLETION THEN WaitingBefore(p) ELSE earlier
    /\ pc[p] = "dispatch"
    /\ op[p] \in flash_op
    /\ rc' = [rc EXCEPT ![p] = r]
    /\ dispatch_rc' = [dispatch_rc EXCEPT ![p] = Some(r)]
    /\ dispatched' = [dispatched EXCEPT ![p] = @ + 1]
    /\ inflight' = IF r = OPAL_ASYNC_COMPLETION
                   THEN inflight \cup {token[p]} ELSE inflight
    /\ requester' = IF r = OPAL_ASYNC_COMPLETION
                    THEN [requester EXCEPT ![token[p]] = p] ELSE requester
    /\ IF DispatchAccepted(r)
       THEN /\ pc' = [pc EXCEPT ![p] = "wait"]
            /\ token_map' = token_map \ {token[p]}
            /\ UNCHANGED outs
       ELSE /\ async_op_return(p, -EIO, retlen[p])
            /\ UNCHANGED token_map
    /\ UNCHANGED <<op, offset, len, token, msg, erase, responses,
                   acquired, released, waited>>

\* bug variant: a rejected request is dispatched a second time
opal_flash_dispatch_retry(p, r) ==
    /\ UNCHANGED platform
    /\ earlier' = IF r = OPAL_ASYNC_COMPLETION THEN WaitingBefore(p) ELSE earlier
    /\ pc[p] = "dispatch"
    /\ op[p] \in flash_op
    /\ rc' = [rc EXCEPT ![p] = r]
    /\ dispatch_rc' = [dispatch_rc EXCEPT ![p] = Some(r)]
    /\ dispatched' = [dispatched EXCEPT ![p] = @ + 1]
    /\ inflight' = IF r = OPAL_ASYNC_COMPLETION
                   THEN inflight \cup {token[p]} ELSE inflight
    /\ requester' = IF r = OPAL_ASYNC_COMPLETION
                    THEN [requester EXCEPT ![token[p]] = p] ELSE requester
    /\ IF DispatchAccepted(r)
       THEN /\ pc' = [pc EXCEPT ![p] = "wait"]
            /\ UNCHANGED outs
       ELSE IF dispatched[p] = 0
       THEN UNCHANGED <<pc, outs>>
       ELSE async_op_return(p, -EIO, retlen[p])
    /\ UNCHANGED <<op, offset, len, token, msg, erase, token_map, responses,
                   acquired, released, waited>>

\* lines 75-93: opal_flash_read / opal_flash_write / opal_flash_erase with the
\* token, then the test of its answer r
opal_flash_dispatch(p, r) ==
    /\ UNCHANGED platform
    /\ earlier' = IF r = OPAL_ASYNC_COMPLETION THEN WaitingBefore(p) ELSE earlier
    /\ pc[p] = "dispatch"
    /\ op[p] \in flash_op
    /\ rc' = [rc EXCEPT ![p] = r]
    /\ dispatch_rc' = [dispatch_rc EXCEPT ![p] = Some(r)]
    /\ dispatched' = [dispatched EXCEPT ![p] = @ + 1]
    /\ inflight' = IF r = OPAL_ASYNC_COMPLETION
                   THEN inflight \cup {token[p]} ELSE inflight
    /\ requester' = IF r = OPAL_ASYNC_COMPLETION
                    THEN [requester EXCEPT ![token[p]] = p] ELSE requester
    /\ IF DispatchAccepted(r)
       THEN /\ pc' = [pc EXCEPT ![p] = "wait"]
            /\ UNCHANGED outs
       ELSE async_op_return(p, -EIO, retlen[p])
    /\ UNCHANGED <<op, offset, len, token, msg, erase, token_map, responses,
                   acquired, released, waited>>

\* the firmware finishes an accepted request and posts its completion
\* message, tagged with the token of the request
opal_async_comp_event(t, status) ==
    /\ UNCHANGED platform
    /\ UNCHANGED earlier
    /\ t \in inflight
    /\ inflight' = inflight \ {t}
    /\ responses' = [responses EXCEPT ![t] = Some(status)]
    /\ UNCHANGED <<pc, locals, outs, erase, token_map, dispatch_rc, requester, counts>>

\* bug variant of line 95: the wait is for the lowest token handed out
WaitTokenLowest(p) == CHOOSE t \in token_map : \A u \in token_map : t <= u

\* line 95: the token the invocation waits on is its own
WaitToken(p) == token[p]

\* line 95, the message tagged with the token has arrived: it is copied to msg
wait_response_ok(p) ==
    /\ UNCHANGED platform
    /\ earlier' = [q \in Procs |-> earlier[q] \ {p}]
    /\ pc[p] = "wait"
    /\ responses[WaitToken(p)] # NoMsg
    /\ msg' = [msg EXCEPT ![p] = responses[WaitToken(p)]]
    /\ responses' = [responses EXCEPT ![WaitToken(p)] = NoMsg]
    /\ requester' = [requester EXCEPT ![WaitToken(p)] = NoProc]
    /\ rc' = [rc EXCEPT ![p] = 0]
    /\ waited' = [waited EXCEPT ![p] = @ + 1]
    /\ pc' = [pc EXCEPT ![p] = "release"]
    /\ UNCHANGED <<op, offset, len, token, outs, erase, token_map, inflight,
                   dispatch_rc, acquired, released, dispatched>>

\* line 95, no message has arrived and the wait is abandoned with an error:
\* msg is not filled, and the channel forgets the request
wait_response_fail(p) ==
    /\ UNCHANGED platform
    /\ earlier' = [q \in Procs |-> earlier[q] \ {p}]
    /\ pc[p] = "wait"
    /\ responses[WaitToken(p)] = NoMsg
    /\ rc' = [rc EXCEPT ![p] = -EINVAL]
    /\ inflight' = inflight \ {WaitToken(p)}
    /\ responses' = [responses EXCEPT ![WaitToken(p)] = NoMsg]
    /\ requester' = [requester EXCEPT ![WaitToken(p)] = NoProc]
    /\ waited' = [waited EXCEPT ![p] = @ + 1]
    /\ pc' = [pc EXCEPT ![p] = "release"]
    /\ UNCHANGED <<op, offset, len, token, msg, outs, erase, token_map,
                   dispatch_rc, acquired, released, dispatched>>

opal_async_wait_response(p) ==
    \/ wait_response_ok(p)
    \/ wait_response_fail(p)

\* bug variant of line 106: one byte short
RetlenShort(l) == l - 1

\* line 106: *retlen = len
RetlenOnSuccess(l) == l

\* bug variant of lines 102-109: the status of the message is not looked at
DecodeStatusIgnored(m) == 0

\* lines 102-109: rc after the status of the message is decoded
DecodeStatus(m) == IF Val(m) = OPAL_SUCCESS THEN 0 ELSE -EIO

\* line 111: the value returned once the status is decoded
AsyncOpResult(r) == 0

\* bug variant of lines 96-100: the result of the wait is looked at first, and
\* a failed wait returns with the token still held
opal_async_release_token_after_check(p) ==
    /\ UNCHANGED platform
    /\ UNCHANGED earlier
    /\ pc[p] = "release"
    /\ IF rc[p] # 0
       THEN /\ async_op_return(p, -EIO, retlen[p])
            /\ UNCHANGED <<rc, token, token_map, released>>
       ELSE /\ token_map' = token_map \ {token[p]}
            /\ token' = [token EXCEPT ![p] = NoToken]
            /\ released' = [released EXCEPT ![p] = @ + 1]
            /\ rc' = [rc EXCEPT ![p] = DecodeStatus(msg[p])]
            /\ async_op_return(p, AsyncOpResult(DecodeStatus(msg[p])),
                  IF DecodeStatus(msg[p]) = 0 /\ op[p] # "FLASH_OP_ERASE"
                  THEN Some(RetlenOnSuccess(len[p])) ELSE retlen[p])
    /\ UNCHANGED <<op, offset, len, msg, erase, firmware,
                   acquired, dispatched, waited>>

\* lines 96-111: the token goes back to the pool, and the invocation holds
\* none from here on (its variable token is not read again); then the result
\* of the wait and the status of the message decide rc, *retlen and the
\* return value.  erase passes retlen = NULL
opal_async_release_token(p) ==
    /\ UNCHANGED platform
    /\ UNCHANGED earlier
    /\ pc[p] = "release"
    /\ token_map' = token_map \ {token[p]}
    /\ token' = [token EXCEPT ![p] = NoToken]
    /\ released' = [released EXCEPT ![p] = @ + 1]
    /\ IF rc[p] # 0
       THEN /\ async_op_return(p, -EIO, retlen[p])
            /\ UNCHANGED rc
       ELSE /\ rc' = [rc EXCEPT ![p] = DecodeStatus(msg[p])]
            /\ async_op_return(p, AsyncOpResult(DecodeStatus(msg[p])),
                  IF DecodeStatus(msg[p]) = 0 /\ op[p] # "FLASH_OP_ERASE"
                  THEN Some(RetlenOnSuccess(len[p])) ELSE retlen[p])
    /\ UNCHANGED <<op, offset, len, msg, erase, firmware,
                   acquired, dispatched, waited>>

\* ---- the rest of powernv_flash_erase -------------------------------------

\* bug variant of line 162: the end of the range instead of its start
EraseFailAddrEnd(addr, l) == addr + l

\* line 162: erase->fail_addr = erase->addr
EraseFailAddr(addr, l) == addr

\* lines 161-166
erase_set_state(p) ==
    /\ UNCHANGED platform
    /\ UNCHANGED earlier
    /\ pc[p] = "erase_rc"
    /\ IF Val(ret[p]) # 0
       THEN /\ fail_addr' = [fail_addr EXCEPT ![p] = EraseFailAddr(offset[p], len[p])]
            /\ erase_state' = [erase_state EXCEPT ![p] = "MTD_ERASE_FAILED"]
       ELSE /\ erase_state' = [erase_state EXCEPT ![p] = "MTD_ERASE_DONE"]
            /\ UNCHANGED fail_addr
    /\ pc' = [pc EXCEPT ![p] = "erase_callback"]
    /\ UNCHANGED <<locals, outs, callbacks, token_map, firmware, counts>>

\* bug variant: a failed erase is not reported
mtd_erase_callback_on_done(p) ==
    /\ UNCHANGED platform
    /\ UNCHANGED earlier
    /\ pc[p] = "erase_callback"
    /\ callbacks' = [callbacks EXCEPT ![p] =
                        IF erase_state[p] = "MTD_ERASE_DONE" THEN @ + 1 ELSE @]
    /\ pc' = [pc EXCEPT ![p] = "erase_return"]
    /\ UNCHANGED <<locals, outs, erase_state, fail_addr, token_map, firmware, counts>>

\* line 167
mtd_erase_callback(p) ==
    /\ UNCHANGED platform
    /\ UNCHANGED earlier
    /\ pc[p] = "erase_callback"
    /\ callbacks' = [callbacks EXCEPT ![p] = @ + 1]
    /\ pc' = [pc EXCEPT ![p] = "erase_return"]
    /\ UNCHANGED <<locals, outs, erase_state, fail_addr, token_map, firmware, counts>>

\* bug variant of line 168: the bridge's value is handed on
EraseResultRc(r) == r

\* line 168: return 0
EraseResult(r) == 0

erase_return(p) ==
    /\ UNCHANGED platform
    /\ UNCHANGED earlier
    /\ pc[p] = "erase_return"
    /\ result' = [result EXCEPT ![p] = Some(EraseResult(Val(ret[p])))]
    /\ pc' = [pc EXCEPT ![p] = "done"]
    /\ UNCHANGED <<locals, retlen, ret, erase, token_map, firmware, counts>>

\* the caller has the result and is free to call again, with a new request;
\* nothing of the invocation is left but what it did to the token pool
caller_continues(p) ==
    /\ UNCHANGED platform
    /\ earlier' = [earlier EXCEPT ![p] = {}]
    /\ pc[p] = "done"
    /\ pc' = [pc EXCEPT ![p] = "idle"]
    /\ op' = [op EXCEPT ![p] = NoOp]
    /\ offset' = [offset EXCEPT ![p] = 0]
    /\ len' = [len EXCEPT ![p] = 0]
    /\ token' = [token EXCEPT ![p] = NoToken]
    /\ rc' = [rc EXCEPT ![p] = 0]
    /\ msg' = [msg EXCEPT ![p] = NoMsg]
    /\ retlen' = [retlen EXCEPT ![p] = Unset]
    /\ ret' = [ret EXCEPT ![p] = Unset]
    /\ result' = [result EXCEPT ![p] = Unset]
    /\ erase_state' = [erase_state EXCEPT ![p] = "MTD_ERASE_PENDING"]
    /\ fail_addr' = [fail_addr EXCEPT ![p] = MTD_FAIL_ADDR_UNKNOWN]
    /\ callbacks' = [callbacks EXCEPT ![p] = 0]
    /\ dispatch_rc' = [dispatch_rc EXCEPT ![p] = Unset]
    /\ acquired' = [acquired EXCEPT ![p] = 0]
    /\ released' = [released EXCEPT ![p] = 0]
    /\ dispatched' = [dispatched EXCEPT ![p] = 0]
    /\ waited' = [waited EXCEPT ![p] = 0]
    /\ UNCHANGED <<token_map, inflight, responses, requester>>

\* ---- the system ----------------------------------------------------------

Next ==
    \/ \E alloc_ok \in BOOLEAN, garbage \in UninitCounts, register_rc \in {0, -ENOMEM} :
          powernv_flash_probe(alloc_ok, garbage, register_rc)
    \/ \E p \in Procs : \E off \in Offsets(p), l \in Lens : powernv_flash_read(p, off, l)
    \/ \E p \in Procs : \E off \in Offsets(p), l \in Lens : powernv_flash_write(p, off, l)
    \/ \E p \in Procs : \E off \in Offsets(p), l \in Lens : powernv_flash_erase(p, off, l)
    \/ \E p \in Procs : opal_async_get_token_interruptible(p)
    \/ \E p \in Procs, r \in DispatchRcs : opal_flash_dispatch(p, r)
    \/ \E t \in Tokens, s \in Statuses : opal_async_comp_event(t, s)
    \/ \E p \in Procs : opal_async_wait_response(p)
    \/ \E p \in Procs : opal_async_release_token(p)
    \/ \E p \in Procs : erase_set_state(p)
    \/ \E p \in Procs : mtd_erase_callback(p)
    \/ \E p \in Procs : erase_return(p)
    \/ \E p \in Procs : caller_continues(p)

Spec == Init /\ [][Next]_vars

TypeOK ==
    /\ pc \in [Procs -> {"idle", "get_token", "dispatch", "wait", "release",
                         "erase_rc", "erase_callback", "erase_return", "done"}]
    /\ op \in [Procs -> flash_op \cup {NoOp}]
    /\ token \in [Procs -> Tokens \cup {NoToken} \cup TokenErrors]
    /\ token_map \subseteq Tokens
    /\ inflight \subseteq Tokens
    /\ responses \in [Tokens -> {Some(st) : st \in Statuses} \cup {NoMsg}]
    /\ requester \in [Tokens -> Procs \cup {NoProc}]

\* ---- vocabulary of the properties ----------------------------------------

ReadOrWrite(p) == op[p] \in {"FLASH_OP_READ", "FLASH_OP_WRITE"}
IsErase(p) == op[p] = "FLASH_OP_ERASE"
\* powernv_flash_async_op has returned to the facade
BridgeReturned(p) == pc[p] \in {"erase_rc", "erase_callback", "erase_return", "done"}
\* the facade entry point has returned to its caller
Returned(p) == pc[p] = "done"
\* the firmware answered the dispatch, and not with "accepted for async completion"
Rejected(p) == dispatch_rc[p] # Unset /\ Val(dispatch_rc[p]) # OPAL_ASYNC_COMPLETION
Accepted(p) == dispatch_rc[p] = Some(OPAL_ASYNC_COMPLETION)
\* the completion message of the invocation arrived, with this status
CompletedWith(p, st) == Accepted(p) /\ msg[p] = Some(st)
CompletedNonSuccess(p) == \E st \in Statuses \ {OPAL_SUCCESS} : CompletedWith(p, st)
Terminal == {"MTD_ERASE_DONE", "MTD_ERASE_FAILED"}

\* ---- C1 -------------------------------------------------------------------
\* C1: once every invocation has returned, each has released exactly the
\* tokens it acquired (none released twice, none kept), and so the pool has
\* every token back.
C1_TokensBalanced ==
    (\A p \in Procs : pc[p] \in {"idle", "done"}) =>
        /\ \A p \in Procs : released[p] = acquired[p]
        /\ token_map = {}

\* ---- C2 -------------------------------------------------------------------
\* C2: when the dispatch is rejected, the token the invocation acquired has
\* been released by the time the bridge returns.
C2_RejectedReleasesToken ==
    \A p \in Procs :
        (BridgeReturned(p) /\ Rejected(p)) =>
            /\ released[p] = 1
            /\ token[p] \notin token_map

\* ---- C3 -------------------------------------------------------------------
\* C3: an invocation whose dispatch was rejected is never at or past the
\* completion wait, has made no call of opal_async_wait_response, and its
\* bridge call has returned -EIO in the step that saw the rejection; read and
\* write hand that -EIO to their caller.
C3_RejectedNeverWaits ==
    \A p \in Procs :
        Rejected(p) =>
            /\ pc[p] \notin {"wait", "release"}
            /\ waited[p] = 0
            /\ msg[p] = NoMsg
            /\ BridgeReturned(p)
            /\ ret[p] = Some(-EIO)
            /\ (Returned(p) /\ ReadOrWrite(p)) => result[p] = Some(-EIO)

C3_Witness ==
    \E p \in Procs :
        /\ Returned(p) /\ ReadOrWrite(p) /\ Rejected(p)
        /\ dispatch_rc[p] = Some(OPAL_SUCCESS)
        /\ result[p] = Some(-EIO)

\* ---- C4 -------------------------------------------------------------------
\* C4: a read or write whose completion message carries a non-success status
\* returns -EIO to its caller and leaves *retlen unwritten.
C4_NonSuccessReturnsEIO ==
    \A p \in Procs :
        (Returned(p) /\ ReadOrWrite(p) /\ CompletedNonSuccess(p)) =>
            /\ result[p] = Some(-EIO)
            /\ retlen[p] = Unset

\* ---- C5 -------------------------------------------------------------------
\* C5: a read or write whose completion message carries OPAL_SUCCESS returns
\* 0 and reports *retlen equal to the requested len.
C5_SuccessReportsLen ==
    \A p \in Procs :
        (Returned(p) /\ ReadOrWrite(p) /\ CompletedWith(p, OPAL_SUCCESS)) =>
            /\ result[p] = Some(0)
            /\ retlen[p] = Some(len[p])

C5_Witness ==
    \E p \in Procs :
        /\ Returned(p) /\ op[p] = "FLASH_OP_READ" /\ CompletedWith(p, OPAL_SUCCESS)
        /\ len[p] = MaxLen
        /\ retlen[p] = Some(MaxLen)

\* ---- C6 -------------------------------------------------------------------
\* C6: an erase whose firmware operation did not complete with OPAL_SUCCESS
\* (no token, dispatch rejected, wait failed, or non-success status) ends
\* MTD_ERASE_FAILED with fail_addr = addr, and it ends MTD_ERASE_DONE only
\* when the completion carried OPAL_SUCCESS.
C6_EraseFailureIsFailed ==
    \A p \in Procs :
        (Returned(p) /\ IsErase(p)) =>
            IF CompletedWith(p, OPAL_SUCCESS)
            THEN erase_state[p] = "MTD_ERASE_DONE"
            ELSE /\ erase_state[p] = "MTD_ERASE_FAILED"
                 /\ fail_addr[p] = offset[p]

\* ---- C7 -------------------------------------------------------------------
\* C7: an erase whose dispatch was rejected returns with the request
\* MTD_ERASE_FAILED, fail_addr = addr, and the callback called exactly once.
C7_RejectedEraseFailed ==
    \A p \in Procs :
        (Returned(p) /\ IsErase(p) /\ Rejected(p)) =>
            /\ erase_state[p] = "MTD_ERASE_FAILED"
            /\ fail_addr[p] = offset[p]
            /\ callbacks[p] = 1

C7_Witness ==
    \E p \in Procs :
        /\ Returned(p) /\ IsErase(p) /\ Rejected(p)
        /\ fail_addr[p] = offset[p]
        /\ callbacks[p] = 1

\* ---- C8 -------------------------------------------------------------------
\* C8: an erase has not called the callback while the bridge operation is
\* running or before the request state is terminal; it calls it once, with
\* the bridge returned and the state terminal; and when erase returns the
\* callback has been called exactly once, whatever the bridge returned.
C8_CallbackOnce ==
    \A p \in Procs :
        IsErase(p) =>
            /\ pc[p] \in {"get_token", "dispatch", "wait", "release", "erase_rc"}
                  => callbacks[p] = 0
            /\ pc[p] = "erase_callback"
                  => (callbacks[p] = 0 /\ erase_state[p] \in Terminal /\ ret[p] # Unset)
            /\ pc[p] \in {"erase_return", "done"}
                  => (callbacks[p] = 1 /\ erase_state[p] \in Terminal)
            /\ result[p] # Unset => callbacks[p] = 1

C8_Witness ==
    \E p \in Procs :
        /\ Returned(p) /\ IsErase(p)
        /\ Accepted(p) /\ msg[p] = NoMsg
        /\ erase_state[p] = "MTD_ERASE_FAILED"
        /\ callbacks[p] = 1

EraseStateByPosition ==
    \A p \in Procs :
        /\ pc[p] = "idle" => erase_state[p] = "MTD_ERASE_PENDING"
        /\ IsErase(p) =>
            /\ pc[p] \in {"get_token", "dispatch", "wait", "release", "erase_rc"}
                  => erase_state[p] = "MTD_ERASING"
            /\ pc[p] \in {"erase_callback", "erase_return", "done"}
                  => erase_state[p] \in Terminal

\* the steps of one erase call change the request state only from PENDING to
\* ERASING and from ERASING to DONE or FAILED (the caller's next request is
\* a new one)
EraseStateStep ==
    \A p \in Procs :
        \/ erase_state'[p] = erase_state[p]
        \/ pc[p] = "done" /\ pc'[p] = "idle"
        \/ erase_state[p] = "MTD_ERASE_PENDING" /\ erase_state'[p] = "MTD_ERASING"
        \/ /\ erase_state[p] = "MTD_ERASING"
           /\ erase_state'[p] \in Terminal
           /\ ret[p] # Unset

\* C10: the request state of an erase only moves PENDING -> ERASING -> DONE
\* or FAILED; it is ERASING from the entry until the bridge has returned,
\* the wait included, and terminal from then on, with no further change by
\* the erase call.
C10_EraseStateMachine == []EraseStateByPosition /\ [][EraseStateStep]_vars

C10_Witness ==
    \E p \in Procs :
        /\ IsErase(p) /\ pc[p] = "wait"
        /\ erase_state[p] = "MTD_ERASING"
        /\ responses[token[p]] # NoMsg

\* ---- C11 ------------------------------------------------------------------
\* C11: *retlen is written only by a read or write whose completion message
\* carries OPAL_SUCCESS, and then with len; after a failed token acquisition,
\* a rejected dispatch, a failed wait or a non-success status, and in every
\* erase, it is as the caller left it.
C11_RetlenOnlyOnSuccess ==
    \A p \in Procs :
        /\ retlen[p] # Unset =>
              (ReadOrWrite(p) /\ BridgeReturned(p) /\ CompletedWith(p, OPAL_SUCCESS))
        /\ (BridgeReturned(p) /\ ~CompletedWith(p, OPAL_SUCCESS)) => retlen[p] = Unset
        /\ IsErase(p) => retlen[p] = Unset

C11_Witness ==
    \E p \in Procs :
        /\ Returned(p) /\ op[p] = "FLASH_OP_WRITE"
        /\ CompletedWith(p, OPAL_HARDWARE)
        /\ retlen[p] = Unset

\* ---- C12 ------------------------------------------------------------------
\* C12: an invocation whose token acquisition was interrupted by a signal
\* holds no token, has dispatched nothing, and returns an error other than
\* the out-of-memory one that stands for an exhausted pool.
C12_InterruptedDistinct ==
    \A p \in Procs :
        (BridgeReturned(p) /\ token[p] = -ERESTARTSYS) =>
            /\ acquired[p] = 0
            /\ dispatched[p] = 0
            /\ ret[p] # Some(-ENOMEM)

\* ---- C13 ------------------------------------------------------------------
\* the invocations that hold a token: acquired and not yet released
Holders(t) == {p \in Procs : token[p] = t}
Waiters(t) == {p \in Procs : pc[p] = "wait" /\ token[p] = t}

\* C13: no two invocations hold the same token, at most one invocation waits
\* on any token, and a token an invocation holds is marked as handed out in
\* the pool, so the pool cannot hand it out again before it is released.
C13_TokensExclusive ==
    \A t \in Tokens :
        /\ Cardinality(Holders(t)) <= 1
        /\ Cardinality(Waiters(t)) <= 1
        /\ Holders(t) # {} => t \in token_map

C13_Witness ==
    \E p, q \in Procs :
        /\ p # q
        /\ pc[p] = "wait" /\ pc[q] = "dispatch"
        /\ token[p] \in Tokens /\ token[q] \in Tokens
        /\ token[p] # token[q]

\* ---- C14 ------------------------------------------------------------------
\* every request the firmware has accepted and every message it has posted
\* belongs to one invocation, which is waiting on that token
MessagesHaveOneWaiter ==
    \A t \in Tokens :
        (t \in inflight \/ responses[t] # NoMsg) =>
            /\ requester[t] \in Procs
            /\ pc[requester[t]] = "wait"
            /\ token[requester[t]] = t
            /\ ~(t \in inflight /\ responses[t] # NoMsg)

\* what an invocation that got a message reports follows from the status of
\* that message alone
ResultFromOwnStatus ==
    \A p \in Procs :
        (BridgeReturned(p) /\ msg[p] # NoMsg) =>
            /\ rc[p] = (IF Val(msg[p]) = OPAL_SUCCESS THEN 0 ELSE -EIO)
            /\ ReadOrWrite(p) => (retlen[p] # Unset <=> Val(msg[p]) = OPAL_SUCCESS)

\* the step in which an invocation gets a message: the message is the one
\* posted for its own request, it is taken off the channel, and no other
\* invocation's message changes
ConsumesOwnMessage ==
    \A p \in Procs :
        (pc[p] = "wait" /\ pc'[p] = "release" /\ msg'[p] # NoMsg) =>
            /\ requester[token[p]] = p
            /\ msg'[p] = responses[token[p]]
            /\ responses'[token[p]] = NoMsg
            /\ \A t \in Tokens \ {token[p]} : responses'[t] = responses[t]
            /\ \A q \in Procs \ {p} : msg'[q] = msg[q]

\* C14: an invocation consumes only the completion message posted for its own
\* request, a message is consumed once and by that invocation only, and the
\* outcome of an invocation follows from the status of its own message, in
\* whatever order the firmware posts the messages.
C14_NoCrossTalk ==
    /\ [](MessagesHaveOneWaiter /\ ResultFromOwnStatus)
    /\ [][ConsumesOwnMessage]_vars

\* both wait; the firmware has answered one of them and not the other
C14_Witness ==
    \E p, q \in Procs :
        /\ p # q
        /\ pc[p] = "release" /\ msg[p] = Some(OPAL_HARDWARE)
        /\ pc[q] = "wait" /\ responses[token[q]] = Some(OPAL_SUCCESS)

\* ---- C15 ------------------------------------------------------------------
\* a property probe needs is absent from the device node
PropertyMissing == ~dt.id \/ ~dt.block_size \/ dt.reg = Unset

\* C15: the registration call is made only with the identifier, the size and
\* the erase-block size all read from properties that are there, the facade
\* is entered only on a registered device, and with a property missing probe
\* ends by returning an error, the registration call not made.
C15_ProbeRegistersOnlyComplete ==
    /\ probe.called => (~PropertyMissing /\ probe.fields = GeometryFields)
    /\ \A p \in Procs : pc[p] # "idle" => probe.registered
    /\ (PropertyMissing /\ probe.pc # "start") =>
          /\ probe.pc = "returned"
          /\ probe.ret # Unset
          /\ Val(probe.ret) < 0
          /\ ~probe.called

\* ---- C16 ------------------------------------------------------------------
\* with the wait returned and the token not yet released, nothing has been
\* decided from the result of the wait; past that point the token is released
ReleaseFollowsWait ==
    \A p \in Procs :
        /\ released[p] <= 1
        /\ pc[p] = "release" =>
              (waited[p] = 1 /\ released[p] = 0 /\ ret[p] = Unset
               /\ token[p] \in token_map)
        /\ (waited[p] = 1 /\ pc[p] # "release") =>
              (released[p] = 1 /\ token[p] = NoToken)

\* the step after the return of the wait releases the token, whatever the
\* wait returned and whatever the message says
ReleaseStep ==
    \A p \in Procs :
        (pc[p] = "release" /\ pc'[p] # "release") =>
            /\ released'[p] = released[p] + 1
            /\ token[p] \notin token_map'

\* C16: an invocation that reached the completion wait releases its token
\* exactly once, in the step that follows the return of the wait, whether the
\* wait failed, the status is a failure, or the status is success.
C16_ReleaseRightAfterWait == []ReleaseFollowsWait /\ [][ReleaseStep]_vars

\* the wait failed, and the token is back in the pool
C16_Witness ==
    \E p \in Procs :
        /\ BridgeReturned(p) /\ Accepted(p)
        /\ waited[p] = 1 /\ msg[p] = NoMsg /\ rc[p] = -EINVAL
        /\ released[p] = 1

\* ---- C17 ------------------------------------------------------------------
\* C17: an invocation whose token acquisition failed has taken no token,
\* dispatched nothing, not waited, released nothing, and its bridge call
\* returned -ENOMEM, which read and write hand to their caller; an erase
\* ends MTD_ERASE_FAILED with fail_addr = addr.
C17_NoTokenNoDispatch ==
    \A p \in Procs :
        token[p] \in TokenErrors =>
            /\ acquired[p] = 0 /\ dispatched[p] = 0
            /\ waited[p] = 0 /\ released[p] = 0
            /\ dispatch_rc[p] = Unset /\ msg[p] = NoMsg
            /\ BridgeReturned(p)
            /\ ret[p] = Some(-ENOMEM)
            /\ (Returned(p) /\ ReadOrWrite(p)) => result[p] = Some(-ENOMEM)
            /\ (Returned(p) /\ IsErase(p)) =>
                  (erase_state[p] = "MTD_ERASE_FAILED" /\ fail_addr[p] = offset[p])

C17_Witness ==
    \E p \in Procs :
        /\ Returned(p) /\ IsErase(p)
        /\ token[p] = -EBUSY
        /\ erase_state[p] = "MTD_ERASE_FAILED"
        /\ fail_addr[p] = offset[p]

\* ---- C18 ------------------------------------------------------------------
\* C18: an invocation takes at most one token, dispatches at most once, waits
\* at most once and releases at most once; it dispatches only with a token,
\* waits only after its dispatch and releases only after its wait.
C18_NoRetry ==
    \A p \in Procs :
        /\ acquired[p] <= 1
        /\ dispatched[p] <= acquired[p]
        /\ waited[p] <= dispatched[p]
        /\ released[p] <= waited[p]
        /\ pc[p] \in {"idle", "get_token"} => acquired[p] = 0
        /\ pc[p] = "dispatch" => (acquired[p] = 1 /\ dispatched[p] = 0)
        /\ pc[p] = "wait" => (dispatched[p] = 1 /\ waited[p] = 0)

\* a failed completion, returned without a second attempt
C18_Witness ==
    \E p \in Procs :
        /\ Returned(p) /\ CompletedWith(p, OPAL_HARDWARE)
        /\ acquired[p] = 1 /\ dispatched[p] = 1
        /\ waited[p] = 1 /\ released[p] = 1

\* ---- C19 ------------------------------------------------------------------
\* C19: an invocation is never held up by another one's wait: with another
\* invocation in the completion wait it can take a free token, have its
\* request accepted, and leave its own wait as soon as its message is there,
\* whichever of the two was dispatched first.
C19_NotSerialized ==
    \A p, q \in Procs :
        (p # q /\ pc[q] = "wait") =>
            /\ (pc[p] = "get_token" /\ token_map # Tokens)
                  => ENABLED get_token_ok(p)
            /\ pc[p] = "dispatch"
                  => ENABLED opal_flash_dispatch(p, OPAL_ASYNC_COMPLETION)
            /\ (pc[p] = "wait" /\ responses[token[p]] # NoMsg)
                  => ENABLED wait_response_ok(p)

\* q was dispatched first and still waits for its completion; p, dispatched
\* while q waited, has returned
C19_Witness ==
    \E p, q \in Procs :
        /\ q \in earlier[p]
        /\ pc[q] = "wait" /\ token[q] \in inflight
        /\ Returned(p) /\ CompletedWith(p, OPAL_SUCCESS)

\* ---- C20 ------------------------------------------------------------------
\* the steps of the invocation of p that do not depend on its caller
InvocationStep(p) ==
    \/ get_token_ok(p)
    \/ \E r \in DispatchRcs : opal_flash_dispatch(p, r)
    \/ wait_response_ok(p)
    \/ opal_async_release_token(p)
    \/ erase_set_state(p)
    \/ mtd_erase_callback(p)
    \/ erase_return(p)

\* the system with no signal interrupting a token acquisition and no wait
\* abandoned
NextLive ==
    \/ \E alloc_ok \in BOOLEAN, garbage \in UninitCounts, register_rc \in {0, -ENOMEM} :
          powernv_flash_probe(alloc_ok, garbage, register_rc)
    \/ \E p \in Procs : \E off \in Offsets(p), l \in Lens : powernv_flash_read(p, off, l)
    \/ \E p \in Procs : \E off \in Offsets(p), l \in Lens : powernv_flash_write(p, off, l)
    \/ \E p \in Procs : \E off \in Offsets(p), l \in Lens : powernv_flash_erase(p, off, l)
    \/ \E p \in Procs : InvocationStep(p)
    \/ \E t \in Tokens, s \in Statuses : opal_async_comp_event(t, s)
    \/ \E p \in Procs : caller_continues(p)

\* every invocation is scheduled again and again, a waiter for a token gets
\* one if tokens keep coming back, and the firmware answers every request it
\* accepted
Fairness ==
    /\ \A p \in Procs : SF_vars(InvocationStep(p))
    /\ \A t \in Tokens : WF_vars(\E s \in Statuses : opal_async_comp_event(t, s))

LiveSpec == Init /\ [][NextLive]_vars /\ Fairness

\* C20: every invocation that has entered the bridge eventually returns to
\* its caller.
C20_EveryCallReturns ==
    \A p \in Procs : (pc[p] = "get_token") ~> (pc[p] = "done")

====
